---- MODULE Spec2Model ----
(***************************************************************************)
(* gomodel: the statement cache (Cacher) and the sql id allocator (ID) of  *)
(* cache.go.                                                               *)
(*                                                                         *)
(* A Cacher is a slice of maps, one map per sql type; category typ of the  *)
(* Go slice is cache[typ + 1] here (TLA+ sequences start at 1).  A map is  *)
(* a function whose DOMAIN is the set of ids present.  A *sql.Stmt is the  *)
(* index of its record in stmts, the sequence of all statements the        *)
(* database has prepared so far; nil is NilStmt.                           *)
(*                                                                         *)
(* Further down: the field masks and the cache id derived from them, the   *)
(* Vals / Ptrs methods of a generated model and DB.Update (model template  *)
(* and db.go), and conv, the placeholder resolver of cmd/gomodel.  These   *)
(* are functions of their arguments: arg holds the arguments of one call   *)
(* and res what the call gave.                                             *)
(***************************************************************************)
EXTENDS Integers, Sequences, FiniteSets

\* ---------------------------------------------------------------- bounds
MaxTypes == 2      \* largest types count passed to NewCacher / ExtendType
MaxStmts == 2      \* statements the database prepares in one run
MaxBuilds == 2     \* executions of the create function per key in one run
MaxNew == 5        \* calls of ID.New in one run
MaxCols == 3       \* most columns a model declares in the Vals / Ptrs runs
MaxSegs == 2       \* most pieces (texts, placeholders) of a conv template

Procs == {1, 2}                   \* callers (goroutines)
SeqProcs == {1}                    \* the one caller of the sequential runs
Ids == {0, 1}                     \* sql ids
SQLs == {"a", "b"}                \* sql texts callers and builders supply
TypeArgs == 0..MaxTypes
Keys == (0..(MaxTypes - 1)) \X Ids

NilStmt == 0
NoItem == [sql |-> "", stmt |-> NilStmt]

VARIABLES
    cache,      \* Cacher.cache: sequence of maps id -> [sql, stmt]
    stmts,      \* the sql text of every statement prepared so far
    closed,     \* handles on which Close has been called
    pc,         \* position of each caller inside StmtById
    loc,        \* locals of a StmtById call in flight
    ret,        \* what the last completed call of each caller returned
    log,        \* sqlPrinter.Print calls made by the caller's last call
    builds,     \* executions of create() per key
    first,      \* the item first stored under each key by StmtById
    idv,        \* the int32 behind *ID
    idStart,    \* idv when the observed run started
    idLog,      \* values New has returned in the observed run, in order
    spare,      \* maps of the backing array behind len(c.cache), first first
    arg,        \* the input of the pure function under observation
    res         \* its result, once it has been applied

vars == <<cache, stmts, closed, pc, loc, ret, log, builds, first,
          idv, idStart, idLog, spare, arg, res>>

cacherVars == <<cache, stmts, closed, pc, loc, ret, log, builds, first, spare>>
idVars == <<idv, idStart, idLog>>
pureVars == <<arg, res>>

NoArg == [fn |-> "none"]
NoRes == [fn |-> "none"]

\* ------------------------------------------------------------ uint, int32
\* A Go uint (64 bits) is written <<a, b, c>> = a * 2^62 + b * 2^31 + c with
\* b, c in 0..2^31-1 and a in 0..3, since TLC's integers end at 2^31-1.
MaxInt32 == 2147483647
MinInt32 == (-MaxInt32) - 1

U(n) == <<0, 0, n>>
UintMax == <<3, MaxInt32, MaxInt32>>

\* uint(v) for an int32 v: sign extension to 64 bits, so v < 0 gives 2^64 + v
ToUint(v) == IF v >= 0 THEN U(v) ELSE <<3, MaxInt32, (v + MaxInt32) + 1>>

\* typ - 1 in uint arithmetic
UintDec(n) == IF n = 0 THEN UintMax ELSE U(n - 1)

UintLess(x, y) ==
    \/ x[1] < y[1]
    \/ x[1] = y[1] /\ x[2] < y[2]
    \/ x[1] = y[1] /\ x[2] = y[2] /\ x[3] < y[3]

\* atomic.AddInt32(addr, 1): two's complement addition, wraps at 2^31
AddInt32(v) == IF v = MaxInt32 THEN MinInt32 ELSE v + 1

\* ------------------------------------------------------------ the Cacher
EmptyMap == [i \in {} |-> NoItem]

NewCacher(types) == [t \in 1..types |-> EmptyMap]

Types(c) == Len(c)

\* a lookup that never finds the id
HasNever(c, typ, id) == id \in {}

Has(c, typ, id) == id \in DOMAIN c[typ + 1]

Item(c, typ, id) == c[typ + 1][id]

\* item, has := c.cache[typ][id]; the zero item when the id is absent
Get(c, typ, id) == IF Has(c, typ, id) THEN Item(c, typ, id) ELSE NoItem

\* c.cache[typ][id] = item
\* a store that replaces the whole map of the type by the one item
PutItemAlone(c, typ, id, item) ==
    [c EXCEPT ![typ + 1] = [i \in {id} |-> item]]

\* a store that keeps the item already there
PutItemIfAbsent(c, typ, id, item) ==
    [c EXCEPT ![typ + 1] =
        [i \in (DOMAIN @) \cup {id} |-> IF i \in DOMAIN @ THEN @[i] ELSE item]]

PutItem(c, typ, id, item) ==
    [c EXCEPT ![typ + 1] =
        [i \in (DOMAIN @) \cup {id} |-> IF i = id THEN item ELSE @[i]]]

\* growing by reslicing while the backing array is long enough, which brings
\* the hidden maps back
ExtendReslice(c, typ) ==
    IF typ > Len(c) /\ typ <= Len(c) + Len(spare)
    THEN c \o SubSeq(spare, 1, typ - Len(c))
    ELSE IF typ > Len(c)
    THEN [t \in 1..typ |-> IF t <= Len(c) THEN c[t] ELSE EmptyMap]
    ELSE SubSeq(c, 1, typ)

\* growing without copy(cache, c.cache)
ExtendFresh(c, typ) ==
    IF typ > Len(c) THEN [t \in 1..typ |-> EmptyMap] ELSE SubSeq(c, 1, typ)

\* the body of ExtendType: the new value of c.cache
Extend(c, typ) ==
    IF typ > Len(c)
    THEN [t \in 1..typ |-> IF t <= Len(c) THEN c[t] ELSE EmptyMap]
    ELSE SubSeq(c, 1, typ)

\* what ExtendType leaves in the backing array behind len(c.cache): growing
\* makes a new array of exactly typ maps (cache.go:123), c.cache[:typ]
\* (cache.go:131) keeps the array and hides the maps from typ on
Behind(c, sp, typ) ==
    IF typ > Len(c) THEN <<>> ELSE SubSeq(c, typ + 1, Len(c)) \o sp

\* the arguments sqlPrinter receives from SQLPrinter.Print
PrinterCall(fromcache, sql) == [fromcache |-> fromcache, sql |-> sql]

\* what a call hands back: StmtById and SetStmt (stmt, err), GetStmt (sql,
\* stmt), PrepareStmt (sql, stmt, err), ExtendType (n)
Ret(op, typ, id, sql, stmt, err, n) ==
    [op |-> op, typ |-> typ, id |-> id, sql |-> sql, stmt |-> stmt,
     err |-> err, n |-> n]

NoRet == Ret("none", 0, 0, "", NilStmt, FALSE, U(0))
NoLoc == [typ |-> 0, id |-> 0, sql |-> "", ok |-> TRUE, stmt |-> NilStmt]

\* p.Prepare(sql) succeeding: the database makes a new statement
Prepared(sql) == Append(stmts, sql)

\* storing whatever Prepare returned, error or not
CacheAlways(c, typ, id, sql, stmt, err) ==
    [c EXCEPT ![typ + 1] =
        [i \in (DOMAIN @) \cup {id} |->
            IF i = id THEN [sql |-> sql, stmt |-> stmt] ELSE @[i]]]

\* cache.go:150-155 and 177-185: store the item unless Prepare failed
CacheIfPrepared(c, typ, id, sql, stmt, err) ==
    IF err THEN c ELSE PutItem(c, typ, id, [sql |-> sql, stmt |-> stmt])

\* observers of StmtById, for the runs that count what it does: create()
\* (cache.go:147) runs when the lookup at cache.go:141 misses, and the item
\* of cache.go:155 is the first one of its key if none was stored before
CountBuild(typ, id) ==
    IF Has(cache, typ, id)
    THEN builds' = builds
    ELSE /\ builds[<<typ, id>>] < MaxBuilds
         /\ builds' = [builds EXCEPT ![<<typ, id>>] = @ + 1]

NoteFirst(typ, id) ==
    first' = IF /\ first[<<typ, id>>] = NoItem
                /\ typ < Len(cache')
                /\ Has(cache', typ, id)
             THEN [first EXCEPT ![<<typ, id>>] = Item(cache', typ, id)]
             ELSE first

Unobserved == UNCHANGED <<builds, first>>

Init ==
    /\ cache \in {NewCacher(t) : t \in TypeArgs}
    /\ stmts = <<>>
    /\ closed = {}
    /\ pc = [p \in Procs |-> "idle"]
    /\ loc = [p \in Procs |-> NoLoc]
    /\ ret = [p \in Procs |-> NoRet]
    /\ log = [p \in Procs |-> <<>>]
    /\ builds = [k \in Keys |-> 0]
    /\ first = [k \in Keys |-> NoItem]
    /\ idv = 0
    /\ idStart = 0
    /\ idLog = <<>>
    /\ spare = <<>>
    /\ arg = NoArg
    /\ res = NoRes

\* StmtById as one step (no other caller runs inside it)
StmtById(p, typ, id, sql_, ok) ==
    /\ pc[p] = "idle"
    /\ typ < Len(cache)
    /\ IF Has(cache, typ, id)
       THEN /\ log' = [log EXCEPT ![p] = <<PrinterCall(TRUE, Item(cache, typ, id).sql)>>]
            /\ ret' = [ret EXCEPT ![p] =
                   Ret("StmtById", typ, id, "", Item(cache, typ, id).stmt, FALSE, U(0))]
            /\ UNCHANGED <<cache, stmts>>
       ELSE /\ log' = [log EXCEPT ![p] = <<PrinterCall(FALSE, sql_)>>]
            /\ IF ok
               THEN /\ Len(stmts) < MaxStmts
                    /\ stmts' = Prepared(sql_)
                    /\ cache' = CacheIfPrepared(cache, typ, id, sql_, Len(stmts'), FALSE)
                    /\ ret' = [ret EXCEPT ![p] =
                           Ret("StmtById", typ, id, "", Len(stmts'), FALSE, U(0))]
               ELSE /\ cache' = CacheIfPrepared(cache, typ, id, sql_, NilStmt, TRUE)
                    /\ ret' = [ret EXCEPT ![p] =
                           Ret("StmtById", typ, id, "", NilStmt, TRUE, U(0))]
                    /\ UNCHANGED stmts
    /\ UNCHANGED <<closed, pc, loc>>
    /\ UNCHANGED <<idVars, pureVars, spare>>

\* a lookup that leaves the zero item under an id it did not find
GetStmtInserts(p, typ, id) ==
    /\ pc[p] = "idle"
    /\ typ < Len(cache)
    /\ ret' = [ret EXCEPT ![p] =
           Ret("GetStmt", typ, id, Get(cache, typ, id).sql,
               Get(cache, typ, id).stmt, FALSE, U(0))]
    /\ cache' = IF Has(cache, typ, id) THEN cache ELSE PutItem(cache, typ, id, NoItem)
    /\ log' = [log EXCEPT ![p] = <<>>]
    /\ UNCHANGED <<stmts, closed, pc, loc>>
    /\ UNCHANGED <<idVars, pureVars, spare>>

GetStmt(p, typ, id) ==
    /\ pc[p] = "idle"
    /\ typ < Len(cache)
    /\ ret' = [ret EXCEPT ![p] =
           Ret("GetStmt", typ, id, Get(cache, typ, id).sql,
               Get(cache, typ, id).stmt, FALSE, U(0))]
    /\ log' = [log EXCEPT ![p] = <<>>]
    /\ UNCHANGED <<cache, stmts, closed, pc, loc>>
    /\ UNCHANGED <<idVars, pureVars, spare>>

SetStmt(p, typ, id, sql, ok) ==
    /\ pc[p] = "idle"
    /\ typ < Len(cache)
    /\ log' = [log EXCEPT ![p] = <<>>]
    /\ IF ok
       THEN /\ Len(stmts) < MaxStmts
            /\ stmts' = Prepared(sql)
            /\ cache' = CacheIfPrepared(cache, typ, id, sql, Len(stmts'), FALSE)
            /\ ret' = [ret EXCEPT ![p] =
                   Ret("SetStmt", typ, id, sql, Len(stmts'), FALSE, U(0))]
       ELSE /\ cache' = CacheIfPrepared(cache, typ, id, sql, NilStmt, TRUE)
            /\ ret' = [ret EXCEPT ![p] =
                   Ret("SetStmt", typ, id, sql, NilStmt, TRUE, U(0))]
            /\ UNCHANGED stmts
    /\ UNCHANGED <<closed, pc, loc>>
    /\ UNCHANGED <<idVars, pureVars, spare>>

\* a recompile that puts the new handle into the cache
PrepareStmtCaches(p, typ, id, ok) ==
    /\ pc[p] = "idle"
    /\ typ < Len(cache)
    /\ log' = [log EXCEPT ![p] = <<>>]
    /\ IF ~Has(cache, typ, id)
       THEN /\ ret' = [ret EXCEPT ![p] =
                   Ret("PrepareStmt", typ, id, "", NilStmt, FALSE, U(0))]
            /\ UNCHANGED <<stmts, cache>>
       ELSE IF ok
       THEN /\ Len(stmts) < MaxStmts
            /\ stmts' = Prepared(Item(cache, typ, id).sql)
            /\ cache' = PutItem(cache, typ, id,
                   [sql |-> Item(cache, typ, id).sql, stmt |-> Len(stmts')])
            /\ ret' = [ret EXCEPT ![p] =
                   Ret("PrepareStmt", typ, id, Item(cache, typ, id).sql,
                       Len(stmts'), FALSE, U(0))]
       ELSE /\ ret' = [ret EXCEPT ![p] =
                   Ret("PrepareStmt", typ, id, Item(cache, typ, id).sql,
                       NilStmt, TRUE, U(0))]
            /\ UNCHANGED <<stmts, cache>>
    /\ UNCHANGED <<closed, pc, loc>>
    /\ UNCHANGED <<idVars, pureVars, spare>>

PrepareStmt(p, typ, id, ok) ==
    /\ pc[p] = "idle"
    /\ typ < Len(cache)
    /\ log' = [log EXCEPT ![p] = <<>>]
    /\ IF ~Has(cache, typ, id)
       THEN /\ ret' = [ret EXCEPT ![p] =
                   Ret("PrepareStmt", typ, id, "", NilStmt, FALSE, U(0))]
            /\ UNCHANGED stmts
       ELSE IF ok
       THEN /\ Len(stmts) < MaxStmts
            /\ stmts' = Prepared(Item(cache, typ, id).sql)
            /\ ret' = [ret EXCEPT ![p] =
                   Ret("PrepareStmt", typ, id, Item(cache, typ, id).sql,
                       Len(stmts'), FALSE, U(0))]
       ELSE /\ ret' = [ret EXCEPT ![p] =
                   Ret("PrepareStmt", typ, id, Item(cache, typ, id).sql,
                       NilStmt, TRUE, U(0))]
            /\ UNCHANGED stmts
    /\ UNCHANGED <<cache, closed, pc, loc>>
    /\ UNCHANGED <<idVars, pureVars, spare>>

ExtendType(p, typ) ==
    /\ pc[p] = "idle"
    /\ cache' = Extend(cache, typ)
    /\ spare' = Behind(cache, spare, typ)
    /\ ret' = [ret EXCEPT ![p] = Ret("ExtendType", typ, 0, "", NilStmt, FALSE, UintDec(typ))]
    /\ log' = [log EXCEPT ![p] = <<>>]
    /\ UNCHANGED <<stmts, closed, pc, loc>>
    /\ UNCHANGED <<idVars, pureVars>>

\* ------------------------------------------- StmtById, line by line
\* The same StmtById for callers that run at once.  Its accesses to the
\* shared Cacher are the map read of cache.go:141 and the map write of
\* cache.go:155; p.Prepare (cache.go:150) blocks in the database between
\* them.  Nothing orders one caller's steps against another's.  The runs
\* here are those in which no two map accesses overlap in time (each is one
\* step); when two overlap, the Go runtime may instead stop the program
\* with "concurrent map writes".
StmtByIdLookup(p, typ, id, sql_, ok) ==
    /\ pc[p] = "idle"
    /\ typ < Len(cache)
    /\ IF Has(cache, typ, id)
       THEN /\ log' = [log EXCEPT ![p] = <<PrinterCall(TRUE, Item(cache, typ, id).sql)>>]
            /\ ret' = [ret EXCEPT ![p] =
                   Ret("StmtById", typ, id, "", Item(cache, typ, id).stmt, FALSE, U(0))]
            /\ UNCHANGED <<pc, loc>>
       ELSE /\ log' = [log EXCEPT ![p] = <<PrinterCall(FALSE, sql_)>>]
            /\ loc' = [loc EXCEPT ![p] =
                   [typ |-> typ, id |-> id, sql |-> sql_, ok |-> ok, stmt |-> NilStmt]]
            /\ pc' = [pc EXCEPT ![p] = "prepare"]
            /\ UNCHANGED ret
    /\ UNCHANGED <<cache, stmts, closed>>
    /\ UNCHANGED <<idVars, pureVars, spare>>

StmtByIdPrepare(p) ==
    /\ pc[p] = "prepare"
    /\ IF loc[p].ok
       THEN /\ Len(stmts) < MaxStmts
            /\ stmts' = Prepared(loc[p].sql)
            /\ loc' = [loc EXCEPT ![p].stmt = Len(stmts')]
            /\ pc' = [pc EXCEPT ![p] = "store"]
            /\ UNCHANGED <<cache, ret>>
       ELSE /\ cache' = CacheIfPrepared(cache, loc[p].typ, loc[p].id, loc[p].sql, NilStmt, TRUE)
            /\ ret' = [ret EXCEPT ![p] =
                   Ret("StmtById", loc[p].typ, loc[p].id, "", NilStmt, TRUE, U(0))]
            /\ loc' = [loc EXCEPT ![p] = NoLoc]
            /\ pc' = [pc EXCEPT ![p] = "idle"]
            /\ UNCHANGED stmts
    /\ UNCHANGED <<closed, log>>
    /\ UNCHANGED <<idVars, pureVars, spare>>

StmtByIdStore(p) ==
    /\ pc[p] = "store"
    /\ cache' = CacheIfPrepared(cache, loc[p].typ, loc[p].id, loc[p].sql, loc[p].stmt, FALSE)
    /\ ret' = [ret EXCEPT ![p] =
           Ret("StmtById", loc[p].typ, loc[p].id, "", loc[p].stmt, FALSE, U(0))]
    /\ loc' = [loc EXCEPT ![p] = NoLoc]
    /\ pc' = [pc EXCEPT ![p] = "idle"]
    /\ UNCHANGED <<stmts, closed, log>>
    /\ UNCHANGED <<idVars, pureVars, spare>>

\* ------------------------------------------------------- the id allocator
\* NewID starts the counter at 0.  A run is observed from an allocator on
\* which New has already been called idStart times: 0, 2^31-2 or 2^32-2
\* (the int32 then holds -2).
IdStarts == {0, MaxInt32 - 1, -2}

\* an increment that returns the new value but loses the write
NewLostUpdate(p) ==
    /\ Len(idLog) < MaxNew
    /\ idv' = idv
    /\ idLog' = Append(idLog, [p |-> p, v |-> ToUint(AddInt32(idv))])
    /\ UNCHANGED idStart
    /\ UNCHANGED <<cacherVars, pureVars>>

\* ID.New, one atomic read-modify-write
New(p) ==
    /\ Len(idLog) < MaxNew
    /\ idv' = AddInt32(idv)
    /\ idLog' = Append(idLog, [p |-> p, v |-> ToUint(idv')])
    /\ UNCHANGED idStart
    /\ UNCHANGED <<cacherVars, pureVars>>

InitID ==
    /\ cache = NewCacher(0)
    /\ stmts = <<>>
    /\ closed = {}
    /\ pc = [p \in Procs |-> "idle"]
    /\ loc = [p \in Procs |-> NoLoc]
    /\ ret = [p \in Procs |-> NoRet]
    /\ log = [p \in Procs |-> <<>>]
    /\ builds = [k \in Keys |-> 0]
    /\ first = [k \in Keys |-> NoItem]
    /\ idv \in IdStarts
    /\ idStart = idv
    /\ idLog = <<>>
    /\ spare = <<>>
    /\ arg = NoArg
    /\ res = NoRes

\* -------------------------------------------------------- specifications
\* Spec: one caller, every operation of the Cacher, each call one step.
Next ==
    \/ \E p \in SeqProcs, typ \in TypeArgs, id \in Ids, sql_ \in SQLs, ok \in BOOLEAN :
           StmtById(p, typ, id, sql_, ok) /\ Unobserved
    \/ \E p \in SeqProcs, typ \in TypeArgs, id \in Ids : GetStmt(p, typ, id) /\ Unobserved
    \/ \E p \in SeqProcs, typ \in TypeArgs, id \in Ids, sql \in SQLs, ok \in BOOLEAN :
           SetStmt(p, typ, id, sql, ok) /\ Unobserved
    \/ \E p \in SeqProcs, typ \in TypeArgs, id \in Ids, ok \in BOOLEAN :
           PrepareStmt(p, typ, id, ok) /\ Unobserved
    \/ \E p \in SeqProcs, typ \in TypeArgs : ExtendType(p, typ) /\ Unobserved

Spec == Init /\ [][Next]_vars

\* SpecSeqOk: one caller, StmtById and GetStmt only, Prepare never fails;
\* the builder executions and the first stored items are counted.
NextSeqOk ==
    \/ \E p \in SeqProcs, typ \in TypeArgs, id \in Ids, sql_ \in SQLs :
           StmtById(p, typ, id, sql_, TRUE) /\ CountBuild(typ, id) /\ NoteFirst(typ, id)
    \/ \E p \in SeqProcs, typ \in TypeArgs, id \in Ids : GetStmt(p, typ, id) /\ Unobserved

SpecSeqOk == Init /\ [][NextSeqOk]_vars

\* SpecConc: callers running StmtById and GetStmt at once on a Cacher of one
\* sql type.
InitConc == Init /\ Types(cache) = 1

NextConc ==
    \/ \E p \in Procs, typ \in TypeArgs, id \in Ids, sql_ \in SQLs, ok \in BOOLEAN :
           StmtByIdLookup(p, typ, id, sql_, ok) /\ Unobserved
    \/ \E p \in Procs : StmtByIdPrepare(p) /\ Unobserved
    \/ \E p \in Procs : StmtByIdStore(p) /\ Unobserved
    \/ \E p \in Procs, typ \in TypeArgs, id \in Ids : GetStmt(p, typ, id) /\ Unobserved

SpecConc == InitConc /\ [][NextConc]_vars

\* SpecID: callers running ID.New at once on one allocator.
NextID == \E p \in Procs : New(p)

SpecID == InitID /\ [][NextID]_vars

\* ----------------------------------------------------------------- claims
Present(c, k) == k[1] < Len(c) /\ Has(c, k[1], k[2])

RetKey(p) == <<ret[p].typ, ret[p].id>>

AllIdle == \A p \in Procs : pc[p] = "idle"

\* In Spec and SpecSeqOk every step is one whole call of the one caller, so
\* ret'[p] and log'[p] are the result and the printer calls of the step.

\* C1: under sequential access with a preparer that succeeds, the builder
\* runs at most once per key, and every StmtById call returns the handle of
\* the item the first call stored under the key, which is still the item
\* (sql text and handle) the cache holds.
C1_BuilderOncePerKey ==
    /\ \A k \in Keys : builds[k] <= 1
    /\ \A p \in SeqProcs :
           ret[p].op = "StmtById" =>
               /\ ~ret[p].err
               /\ first[RetKey(p)] # NoItem
               /\ ret[p].stmt = first[RetKey(p)].stmt
               /\ Get(cache, ret[p].typ, ret[p].id) = first[RetKey(p)]

\* a second StmtById of a key has been served from the cache
C1_Witness ==
    \E p \in SeqProcs :
        /\ ret[p].op = "StmtById"
        /\ builds[RetKey(p)] = 1
        /\ log[p] = <<PrinterCall(TRUE, first[RetKey(p)].sql)>>
        /\ \E k \in Keys : k # RetKey(p) /\ builds[k] = 1

\* C2: a StmtById or SetStmt whose Prepare fails returns the error and
\* leaves the cache as it was (a failed StmtById leaves its key absent);
\* the next StmtById of that key runs the builder again and compiles again.
C2_FailedPrepareCachesNothing ==
    [][\A p \in SeqProcs :
          /\ (ret'[p].op \in {"StmtById", "SetStmt"} /\ ret'[p].err) =>
                 /\ cache' = cache
                 /\ stmts' = stmts
                 /\ ret'[p].stmt = NilStmt
                 /\ ret'[p].op = "StmtById" => ~Present(cache', <<ret'[p].typ, ret'[p].id>>)
          /\ (/\ ret[p].op = "StmtById" /\ ret[p].err
              /\ ret'[p].op = "StmtById"
              /\ <<ret'[p].typ, ret'[p].id>> = RetKey(p)) =>
                 /\ Len(log'[p]) = 1
                 /\ ~log'[p][1].fromcache
                 /\ (ret'[p].err \/ Len(stmts') = Len(stmts) + 1)
      ]_vars

\* a StmtById has failed while the cache holds an entry under another key
C2_Witness ==
    \E p \in SeqProcs :
        /\ ret[p].op = "StmtById"
        /\ ret[p].err
        /\ \E k \in Keys : k # RetKey(p) /\ Present(cache, k)

\* the entry a completed lookup of caller p found in the cache: GetStmt
\* returns it, a StmtById hit returns its handle and prints its sql
Observed(p) ==
    /\ pc[p] = "idle"
    /\ \/ ret[p].op = "GetStmt" /\ ret[p].stmt # NilStmt
       \/ ret[p].op = "StmtById" /\ ~ret[p].err
          /\ Len(log[p]) = 1 /\ log[p][1].fromcache

ObservedItem(p) ==
    [sql |-> IF ret[p].op = "GetStmt" THEN ret[p].sql ELSE log[p][1].sql,
     stmt |-> ret[p].stmt]

\* C3: with StmtById calls of one key running at once, any two lookups that
\* found an entry under the key found the same sql text and the same handle.
C3_OneDurableEntry ==
    \A p, q \in Procs :
        (Observed(p) /\ Observed(q) /\ RetKey(p) = RetKey(q)) =>
            ObservedItem(p) = ObservedItem(q)

Cached(h) == \E k \in Keys : Present(cache, k) /\ Item(cache, k[1], k[2]).stmt = h

\* C4: once every caller has returned, each handle the StmtById calls
\* prepared is the handle of a cached entry or has been closed.
C4_LosersReleased ==
    AllIdle => \A h \in 1..Len(stmts) : Cached(h) \/ h \in closed

\* C5 as claimed: an entry, once stored, stays under its key with the same
\* sql and handle through every later operation.
C5_EntryNeverChanges ==
    [][\A k \in Keys :
          Present(cache, k) =>
              Present(cache', k) /\ Item(cache', k[1], k[2]) = Item(cache, k[1], k[2])
      ]_vars

\* C5 amended: an entry stays under its key with the same sql and handle
\* through every call except a successful SetStmt of its key, which replaces
\* it, and an ExtendType(n) with n <= typ, which discards it.
C5_EntryChangesOnlyBySetOrShrink ==
    [][\A p \in SeqProcs, k \in Keys :
          (/\ Present(cache, k)
           /\ ~(ret'[p].op = "SetStmt" /\ ~ret'[p].err
                /\ <<ret'[p].typ, ret'[p].id>> = k)
           /\ ~(ret'[p].op = "ExtendType" /\ ret'[p].typ <= k[1])) =>
              Present(cache', k) /\ Item(cache', k[1], k[2]) = Item(cache, k[1], k[2])
      ]_vars

\* a SetStmt has stored an entry beside an older entry of the same type
C5_Witness ==
    \E p \in SeqProcs :
        /\ ret[p].op = "SetStmt"
        /\ ~ret[p].err
        /\ Get(cache, ret[p].typ, ret[p].id).stmt = ret[p].stmt
        /\ \E i \in Ids :
               /\ i # ret[p].id
               /\ Has(cache, ret[p].typ, i)
               /\ Item(cache, ret[p].typ, i).stmt < ret[p].stmt

\* C6: a successful SetStmt has compiled the given sql; right after it
\* GetStmt of its key yields the given sql and the handle it returned, the
\* types count is the same, and every other key is as before.
C6_SetStmtOverwrites ==
    [][\A p \in SeqProcs :
          (ret'[p].op = "SetStmt" /\ ~ret'[p].err) =>
              /\ ret'[p].stmt = Len(stmts')
              /\ Len(stmts') = Len(stmts) + 1
              /\ stmts'[ret'[p].stmt] = ret'[p].sql
              /\ Get(cache', ret'[p].typ, ret'[p].id) =
                     [sql |-> ret'[p].sql, stmt |-> ret'[p].stmt]
              /\ Len(cache') = Len(cache)
              /\ \A k \in Keys :
                     k # <<ret'[p].typ, ret'[p].id>> =>
                         /\ Present(cache', k) = Present(cache, k)
                         /\ Present(cache, k) =>
                                Item(cache', k[1], k[2]) = Item(cache, k[1], k[2])
      ]_vars

\* a SetStmt with another sql has taken the place of the only entry
C6_Witness ==
    \E p \in SeqProcs :
        /\ ret[p].op = "SetStmt"
        /\ ~ret[p].err
        /\ ret[p].stmt = 2
        /\ stmts[1] # stmts[2]
        /\ ~Cached(1)
        /\ Get(cache, ret[p].typ, ret[p].id) = [sql |-> stmts[2], stmt |-> 2]

\* C7: each StmtById and each SetStmt call makes exactly one printer call,
\* which reports whether the sql came from the cache and the sql text.
C7_OnePrintPerCall ==
    \A p \in SeqProcs :
        ret[p].op \in {"StmtById", "SetStmt"} =>
            /\ Len(log[p]) = 1
            /\ (ret[p].op = "SetStmt" /\ ~ret[p].err) =>
                   log[p][1] = PrinterCall(FALSE, ret[p].sql)
            /\ (ret[p].op = "StmtById" /\ ~ret[p].err) =>
                   log[p][1].sql = Get(cache, ret[p].typ, ret[p].id).sql

\* C8: ExtendType(n) on n types changes nothing; ExtendType(n+1) makes the
\* count n+1, keeps every map of the n types, and type n is an empty map.
C8_ExtendTypePreserves ==
    [][\A p \in SeqProcs :
          /\ (ret'[p].op = "ExtendType" /\ ret'[p].typ = Types(cache)) =>
                 cache' = cache
          /\ (ret'[p].op = "ExtendType" /\ ret'[p].typ = Types(cache) + 1) =>
                 /\ Types(cache') = Types(cache) + 1
                 /\ SubSeq(cache', 1, Types(cache)) = cache
                 /\ cache'[Types(cache) + 1] = EmptyMap
      ]_vars

\* ExtendType(2) has returned and type 0 still holds an entry
C8_Witness ==
    \E p \in SeqProcs :
        /\ ret[p].op = "ExtendType"
        /\ ret[p].typ = 2
        /\ Types(cache) = 2
        /\ \E i \in Ids : Has(cache, 0, i)
        /\ cache[2] = EmptyMap

\* C9: ExtendType(typ) returns typ, which is Types() after the call.
C9_ExtendTypeReturnsCount ==
    \A p \in SeqProcs :
        ret[p].op = "ExtendType" =>
            ret[p].n = U(ret[p].typ) /\ ret[p].n = U(Types(cache))

\* the values returned before the observed run: those of calls 1..idStart
ReturnedBefore(u) ==
    /\ idStart # 0
    /\ u # U(0)
    /\ ~UintLess(ToUint(idStart), u)

\* call j of the observed run is among the first 2^32 - 1 calls ever made
\* on the allocator: the counter has not come back to 0 by then
BeforeWrap(j) == \A i \in 1..j : idLog[i].v # U(0)

NewValuesOk(upto) ==
    /\ (idStart = 0 /\ 1 \in upto) => idLog[1].v = U(1)
    /\ \A j \in upto :
           /\ ~ReturnedBefore(idLog[j].v)
           /\ \A i \in 1..(j - 1) :
                  /\ idLog[i].v # idLog[j].v
                  /\ idLog[i].p = idLog[j].p => UintLess(idLog[i].v, idLog[j].v)

\* C10 as claimed: the first value New returns is 1, no value is returned
\* twice, and each caller's values are strictly increasing.
C10_NewUniqueIncreasing == NewValuesOk(1..Len(idLog))

\* C10 amended: the same, for the first 2^32 - 1 calls on the allocator.
C10_NewUniqueIncreasingBeforeWrap ==
    NewValuesOk({j \in 1..Len(idLog) : BeforeWrap(j)})

\* two callers have drawn ids across the int32 sign change at 2^31
C10_Witness ==
    /\ Len(idLog) >= 3
    /\ BeforeWrap(Len(idLog))
    /\ idLog[1].v = U(MaxInt32)
    /\ idLog[2].v = ToUint(MinInt32)
    /\ idLog[1].p = idLog[2].p
    /\ idLog[3].p # idLog[1].p

\* C11: GetStmt returns the cached sql and handle of a key that is present
\* and ("", nil) for one that is absent; it runs no builder (nothing is
\* printed), prepares no statement and leaves every map as it was.
C11_GetStmtOnlyReads ==
    [][\A p \in SeqProcs :
          ret'[p].op = "GetStmt" =>
              /\ cache' = cache
              /\ spare' = spare
              /\ stmts' = stmts
              /\ log'[p] = <<>>
              /\ ~ret'[p].err
              /\ IF Present(cache, <<ret'[p].typ, ret'[p].id>>)
                 THEN /\ ret'[p].sql = cache[ret'[p].typ + 1][ret'[p].id].sql
                      /\ ret'[p].stmt = cache[ret'[p].typ + 1][ret'[p].id].stmt
                 ELSE ret'[p].sql = "" /\ ret'[p].stmt = NilStmt
      ]_vars

\* a GetStmt has missed in a type whose other id is cached
C11_Witness ==
    \E p \in SeqProcs :
        /\ ret[p].op = "GetStmt"
        /\ ret[p].stmt = NilStmt
        /\ ~Has(cache, ret[p].typ, ret[p].id)
        /\ \E i \in Ids : Has(cache, ret[p].typ, i)

\* C12: PrepareStmt of a cached key prepares the cached sql text once more
\* and returns that text with the new handle (or the error), PrepareStmt of
\* an absent key returns ("", nil, nil) and prepares nothing, and in every
\* case the cache is as before.
C12_PrepareStmtKeepsCache ==
    [][\A p \in SeqProcs :
          ret'[p].op = "PrepareStmt" =>
              /\ cache' = cache
              /\ IF Present(cache, <<ret'[p].typ, ret'[p].id>>)
                 THEN /\ ret'[p].sql = cache[ret'[p].typ + 1][ret'[p].id].sql
                      /\ IF ret'[p].err
                         THEN ret'[p].stmt = NilStmt /\ stmts' = stmts
                         ELSE /\ stmts' = Append(stmts, ret'[p].sql)
                              /\ ret'[p].stmt = Len(stmts')
                              /\ ret'[p].stmt # cache[ret'[p].typ + 1][ret'[p].id].stmt
                 ELSE /\ ret'[p].sql = "" /\ ret'[p].stmt = NilStmt /\ ~ret'[p].err
                      /\ stmts' = stmts
      ]_vars

\* a PrepareStmt has returned a second handle for the sql of a cached entry
C12_Witness ==
    \E p \in SeqProcs :
        /\ ret[p].op = "PrepareStmt"
        /\ ~ret[p].err
        /\ ret[p].stmt = 2
        /\ Get(cache, ret[p].typ, ret[p].id) = [sql |-> ret[p].sql, stmt |-> 1]

\* C19: an ExtendType that shrinks to k keeps the entries of types 0..k-1
\* and nothing else, and an ExtendType that grows again afterwards, whether
\* or not the old backing array would be long enough, gives every type it
\* adds an empty map: a lookup there finds nothing of what was cached
\* before the shrink.
C19_RegrowStartsEmpty ==
    [][\A p \in SeqProcs :
          ret'[p].op = "ExtendType" =>
              /\ ret'[p].typ < Len(cache) =>
                    /\ cache' = SubSeq(cache, 1, ret'[p].typ)
                    /\ spare' = SubSeq(cache, ret'[p].typ + 1, Len(cache)) \o spare
              /\ (ret'[p].typ > Len(cache) /\ spare # <<>>) =>
                    /\ Len(cache') = ret'[p].typ
                    /\ SubSeq(cache', 1, Len(cache)) = cache
                    /\ \A t \in Len(cache)..(ret'[p].typ - 1) :
                           \A i \in Ids : Get(cache', t, i) = NoItem
      ]_vars

\* a statement was cached under type 1, the type was truncated away and
\* then added again, and the statement is not in the cache
C19_Witness ==
    \E p \in SeqProcs :
        /\ ret[p].op = "ExtendType"
        /\ ret[p].typ = 2
        /\ Len(cache) = 2
        /\ cache[2] = EmptyMap
        /\ Len(stmts) >= 1
        /\ \A h \in 1..Len(stmts) : ~Cached(h)

\* ------------------------------------------------- field masks, cache ids
\* A field mask (uint64) is written as the set of its set bit positions:
\* bit i stands for the i-th declared column.
WordBits == 64

\* the callers in no call and the allocator untouched: the state of the
\* Cacher and the ID while a pure function is under observation
Untouched ==
    /\ cache = NewCacher(0)
    /\ stmts = <<>>
    /\ closed = {}
    /\ pc = [p \in Procs |-> "idle"]
    /\ loc = [p \in Procs |-> NoLoc]
    /\ ret = [p \in Procs |-> NoRet]
    /\ log = [p \in Procs |-> <<>>]
    /\ builds = [k \in Keys |-> 0]
    /\ first = [k \in Keys |-> NoItem]
    /\ spare = <<>>
    /\ idv = 0
    /\ idStart = 0
    /\ idLog = <<>>

\* 1 << FieldEnd - 1: the bits of all n declared columns
FieldsAll(n) == 0..(n - 1)

\* m << k in 64 bits: bits pushed to position 64 and beyond are lost, and a
\* shift count of 64 or more leaves 0
Shl(m, k) == {b + k : b \in {x \in m : x + k < WordBits}}

\* fields << numField | whereFields
FieldIdentity(n, fields, whereFields) == Shl(fields, n) \union whereFields

\* column counts of the models the ids are computed for
FieldCounts == {1, 2, 3, 32, 33, 64}

\* masks within n declared columns: any of the lowest and the highest column
MasksOf(n) == SUBSET ({0, n - 1} \cap FieldsAll(n))

\* two (fields, whereFields) pairs of one model
IdentityArgs ==
    UNION { { [fn |-> "FieldIdentity", n |-> n,
               f1 |-> f1, w1 |-> w1, f2 |-> f2, w2 |-> w2] :
                 f1 \in MasksOf(n), w1 \in MasksOf(n),
                 f2 \in MasksOf(n), w2 \in MasksOf(n) } : n \in FieldCounts }

\* the ids of both pairs are computed
Identify ==
    /\ arg.fn = "FieldIdentity"
    /\ res = NoRes
    /\ res' = [fn |-> "FieldIdentity",
               id1 |-> FieldIdentity(arg.n, arg.f1, arg.w1),
               id2 |-> FieldIdentity(arg.n, arg.f2, arg.w2)]
    /\ UNCHANGED <<arg, cacherVars, idVars>>

\* SpecMask: the cache id of two mask pairs
InitMask == Untouched /\ arg \in IdentityArgs /\ res = NoRes

NextMask == Identify

SpecMask == InitMask /\ [][NextMask]_vars

\* C13: for a model of up to 64 columns and masks within its columns, two
\* (fields, whereFields) pairs that differ get different cache ids.
C13_IdentityInjective ==
    (res.fn = "FieldIdentity" /\ <<arg.f1, arg.w1>> # <<arg.f2, arg.w2>>)
        => res.id1 # res.id2

\* ------------------------------------------------ Vals, Ptrs, DB.Update
\* A model value (row) is the sequence of its column values in declared
\* order: column i (bit i of a mask) is row[i + 1].  A []interface{} is a
\* sequence; slot k of the Go slice is element k + 1.  A pointer to a
\* column of a row is the column's position in the row.
Nil == 0

ColValues == {10, 20}

Rows(n) == [1..n -> ColValues]

\* a slice of len slots whose contents are told apart from every column
\* value and from each other; also the fresh row of a round trip
Old(len) == [k \in 1..len |-> -k]

\* make([]interface{}, len)
MakeSlice(len) == [k \in 1..len |-> Nil]

\* the number of set bits of a mask
NumFields(mask) == Cardinality(mask)

\* the k-th lowest set bit of a mask, k counted from 0
KthBit(mask, k) == CHOOSE b \in mask : Cardinality({x \in mask : x < b}) = k

RECURSIVE ValsFrom(_, _, _, _, _)
RECURSIVE PtrsFrom(_, _, _, _, _)
RECURSIVE CopyThrough(_, _, _, _)

\* a traversal that writes the column with bit i to vals[i]
ValsFromByColumn(row, fields, vals, col, index) ==
    [k \in 1..Len(vals) |->
        IF (k - 1) \in fields /\ k <= Len(row) THEN row[k] ELSE vals[k]]

\* the bit-by-bit branch of Vals from column col on, index slots written
ValsFrom(row, fields, vals, col, index) ==
    IF col = Len(row) THEN vals
    ELSE IF col \in fields
    THEN ValsFrom(row, fields, [vals EXCEPT ![index + 1] = row[col + 1]],
                  col + 1, index + 1)
    ELSE ValsFrom(row, fields, vals, col + 1, index)

Vals(row, fields, vals) ==
    IF fields = {} THEN vals
    ELSE IF fields = FieldsAll(Len(row))
    THEN [k \in 1..Len(vals) |-> IF k <= Len(row) THEN row[k] ELSE vals[k]]
    ELSE ValsFrom(row, fields, vals, 0, 0)

\* a traversal that hands out the slots from the highest column down
PtrsFromDescending(n, fields, ptrs, col, index) ==
    [k \in 1..Len(ptrs) |->
        IF k <= Cardinality(fields)
        THEN KthBit(fields, Cardinality(fields) - k) + 1 ELSE ptrs[k]]

\* the bit-by-bit branch of Ptrs on a row of n columns
PtrsFrom(n, fields, ptrs, col, index) ==
    IF col = n THEN ptrs
    ELSE IF col \in fields
    THEN PtrsFrom(n, fields, [ptrs EXCEPT ![index + 1] = col + 1],
                  col + 1, index + 1)
    ELSE PtrsFrom(n, fields, ptrs, col + 1, index)

Ptrs(n, fields, ptrs) ==
    IF fields = {} THEN ptrs
    ELSE IF fields = FieldsAll(n)
    THEN [k \in 1..Len(ptrs) |-> IF k <= n THEN k ELSE ptrs[k]]
    ELSE PtrsFrom(n, fields, ptrs, 0, 0)

\* *ptrs[i] = vals[i] for i = from, from + 1, ... on the row the pointers
\* point into
CopyThrough(row, vals, ptrs, from) ==
    IF from > Len(vals) THEN row
    ELSE CopyThrough([row EXCEPT ![ptrs[from]] = vals[from]], vals, ptrs, from + 1)

\* an Update whose second Vals call writes from slot 0 of args
UpdateOverlapping(row, fields, whereFields) ==
    Vals(row, whereFields,
         Vals(row, fields, MakeSlice(NumFields(fields) + NumFields(whereFields))))

\* the args DB.Update hands to ArgsUpdate; args[c1:] shares the slots of
\* args from c1 on
Update(row, fields, whereFields) ==
    LET c1 == NumFields(fields)
        c2 == NumFields(whereFields)
        args == Vals(row, fields, MakeSlice(c1 + c2))
    IN  SubSeq(args, 1, c1) \o Vals(row, whereFields, SubSeq(args, c1 + 1, c1 + c2))

\* Vals on a slice with room for every selected column
ValsArgs ==
    UNION { { [fn |-> "Vals", row |-> row, fields |-> f, vals |-> Old(len)] :
                row \in Rows(n), len \in Cardinality(f)..(n + 1) } :
            <<n, f>> \in { x \in (0..MaxCols) \X SUBSET FieldsAll(MaxCols) :
                               x[2] \subseteq FieldsAll(x[1]) } }

TripArgs ==
    UNION { { [fn |-> "RoundTrip", row |-> row, fields |-> f, fresh |-> Old(n)] :
                row \in Rows(n), f \in SUBSET FieldsAll(n) } : n \in 0..MaxCols }

UpdateArgs ==
    UNION { { [fn |-> "Update", row |-> row, fields |-> f, whereFields |-> w] :
                row \in Rows(n), f \in SUBSET FieldsAll(n),
                w \in SUBSET FieldsAll(n) } : n \in 0..MaxCols }

CallVals ==
    /\ arg.fn = "Vals"
    /\ res = NoRes
    /\ res' = [fn |-> "Vals", vals |-> Vals(arg.row, arg.fields, arg.vals)]
    /\ UNCHANGED <<arg, cacherVars, idVars>>

\* Vals of the row, Ptrs of the fresh row, and the slot by slot copy
RoundTrip ==
    /\ arg.fn = "RoundTrip"
    /\ res = NoRes
    /\ LET c == NumFields(arg.fields)
           vals == Vals(arg.row, arg.fields, MakeSlice(c))
           ptrs == Ptrs(Len(arg.fresh), arg.fields, MakeSlice(c))
       IN  res' = [fn |-> "RoundTrip", vals |-> vals, ptrs |-> ptrs,
                   fresh |-> CopyThrough(arg.fresh, vals, ptrs, 1)]
    /\ UNCHANGED <<arg, cacherVars, idVars>>

CallUpdate ==
    /\ arg.fn = "Update"
    /\ res = NoRes
    /\ res' = [fn |-> "Update", args |-> Update(arg.row, arg.fields, arg.whereFields)]
    /\ UNCHANGED <<arg, cacherVars, idVars>>

\* SpecRow: one call of Vals, of the Vals / Ptrs round trip or of DB.Update
InitRow == Untouched /\ arg \in (ValsArgs \union TripArgs \union UpdateArgs) /\ res = NoRes

NextRow == CallVals \/ RoundTrip \/ CallUpdate

SpecRow == InitRow /\ [][NextRow]_vars

\* C14: Vals(mask, dest) puts the column with the k-th lowest set bit of
\* mask into dest[k] for k below count(mask) and leaves every other slot of
\* dest as it was; mask 0 writes nothing; the all-columns branch gives what
\* the bit-by-bit branch would give.
C14_ValsAscendingOrder ==
    res.fn = "Vals" =>
        /\ Len(res.vals) = Len(arg.vals)
        /\ \A k \in 1..Len(arg.vals) :
               res.vals[k] = IF k <= NumFields(arg.fields)
                             THEN arg.row[KthBit(arg.fields, k - 1) + 1]
                             ELSE arg.vals[k]
        /\ arg.fields = {} => res.vals = arg.vals
        /\ res.vals = ValsFrom(arg.row, arg.fields, arg.vals, 0, 0)

\* Vals has run with a mask that skips a column, on a slice one slot longer
\* than the mask needs
C14_Witness ==
    /\ res.fn = "Vals"
    /\ arg.fields = {0, 2}
    /\ arg.row[1] # arg.row[3]
    /\ Len(arg.vals) = 3
    /\ res.vals = <<arg.row[1], arg.row[3], -3>>

\* C15: Vals and Ptrs give slot i to the same column, and after copying
\* every slot of the values through the same slot of the pointers each
\* selected column of the fresh row holds the original row's value and each
\* unselected column holds what it held.
C15_RoundTripReproducesRow ==
    res.fn = "RoundTrip" =>
        /\ Len(res.vals) = Len(res.ptrs)
        /\ \A i \in 1..Len(res.vals) : res.vals[i] = arg.row[res.ptrs[i]]
        /\ \A c \in 1..Len(arg.row) :
               res.fresh[c] = IF (c - 1) \in arg.fields THEN arg.row[c]
                              ELSE arg.fresh[c]

\* a round trip through a mask of two columns with different values that
\* leaves the lowest column out
C15_Witness ==
    /\ res.fn = "RoundTrip"
    /\ arg.fields = {1, 2}
    /\ Len(arg.row) = 3
    /\ arg.row[2] # arg.row[3]
    /\ res.fresh = <<-1, arg.row[2], arg.row[3]>>

\* C20: the args of DB.Update have count(fields) + count(whereFields)
\* slots; the first count(fields) hold the selected columns in declared
\* order, the rest hold the where columns in declared order, and no slot is
\* left nil.
C20_UpdateArgsLayout ==
    res.fn = "Update" =>
        LET c1 == Cardinality(arg.fields)
            c2 == Cardinality(arg.whereFields)
        IN  /\ Len(res.args) = c1 + c2
            /\ \A k \in 1..c1 : res.args[k] = arg.row[KthBit(arg.fields, k - 1) + 1]
            /\ \A k \in 1..c2 :
                   res.args[c1 + k] = arg.row[KthBit(arg.whereFields, k - 1) + 1]
            /\ \A k \in 1..(c1 + c2) : res.args[k] # Nil

\* an Update of two columns where the third column, which holds another
\* value, is the filter
C20_Witness ==
    /\ res.fn = "Update"
    /\ arg.fields = {0, 1}
    /\ arg.whereFields = {2}
    /\ arg.row[1] # arg.row[3]
    /\ res.args = <<arg.row[1], arg.row[2], arg.row[3]>>

\* ------------------------------------------------------------------ conv
\* A Go string is the sequence of its bytes (0..255); the bytes conv tests
\* for are named.  The text "S " is <<83, 32>> and the one character e with
\* an acute accent is the two bytes <<195, 169>>.
LBrace == 123
RBrace == 125
Dot == 46
Colon == 58
Comma == 44
Space == 32

INIT == 0
PARSING_MODEL == 1
PARSING_FIELD == 2

NoErr == [kind |-> "nil", field |-> <<>>, model |-> <<>>]

\* errors.Newf("model %s isn't registered", model)
ErrModel(model) == [kind |-> "model", field |-> <<>>, model |-> model]

\* errors.Newf("field %s of model %s not found", field, model)
ErrField(field, model) == [kind |-> "field", field |-> field, model |-> model]

NilTable == [nil |-> TRUE, Name |-> <<>>]

\* v.Models[model]: the registry holds the model U with the table t
Models(model) ==
    IF model = <<85>> THEN [nil |-> FALSE, Name |-> <<116>>] ELSE NilTable

\* table.Fields.Get(field): U has the fields I and N with the columns i and
\* n; <<>> stands for nil
FieldsGet(field) ==
    IF field = <<73>> THEN <<105>>
    ELSE IF field = <<78>> THEN <<110>>
    ELSE <<>>

\* the number of bytes "for i := range sql" steps over at index i: the
\* length of the UTF-8 sequence that starts there, 1 if it is malformed
RuneWidth(sql, i) ==
    LET b == sql[i]
        n == IF b < 128 THEN 1
             ELSE IF b >= 194 /\ b <= 223 THEN 2
             ELSE IF b >= 224 /\ b <= 239 THEN 3
             ELSE IF b >= 240 /\ b <= 244 THEN 4
             ELSE 1
    IN  IF /\ i + n - 1 <= Len(sql)
           /\ \A j \in (i + 1)..(i + n - 1) : sql[j] >= 128 /\ sql[j] <= 191
        THEN n ELSE 1

\* the locals of conv when the loop starts
ConvStart ==
    [state |-> INIT, sqlbuf |-> <<>>, modelbuf |-> <<>>, fieldbuf |-> <<>>,
     table |-> NilTable, withModel |-> FALSE, err |-> NoErr]

\* modelTable: *table = v.Models[model], an error if that is nil
modelTable(st) ==
    IF Models(st.modelbuf).nil
    THEN [st EXCEPT !.table = NilTable, !.err = ErrModel(st.modelbuf)]
    ELSE [st EXCEPT !.table = Models(st.modelbuf)]

\* writeModel looks the table up into a variable of its own
writeModel(st) ==
    IF Models(st.modelbuf).nil
    THEN [st EXCEPT !.err = ErrModel(st.modelbuf)]
    ELSE [st EXCEPT !.sqlbuf = @ \o Models(st.modelbuf).Name]

writeField(st) ==
    IF FieldsGet(st.fieldbuf) = <<>>
    THEN [st EXCEPT !.err = ErrField(st.fieldbuf, st.modelbuf)]
    ELSE [st EXCEPT !.sqlbuf =
              @ \o (IF st.withModel THEN st.table.Name \o <<Dot>> ELSE <<>>)
                \o FieldsGet(st.fieldbuf)]

\* one pass of the loop body with c = sql[i]
ConvStep(st, c) ==
    IF st.state = INIT
    THEN IF c = LBrace
         THEN [st EXCEPT !.state = PARSING_MODEL, !.withModel = FALSE,
                         !.modelbuf = <<>>, !.fieldbuf = <<>>]
         ELSE [st EXCEPT !.sqlbuf = Append(@, c)]
    ELSE IF st.state = PARSING_MODEL
    THEN IF c = RBrace
         THEN IF writeModel(st).err # NoErr THEN writeModel(st)
              ELSE [writeModel(st) EXCEPT !.state = INIT]
         ELSE IF c = Dot \/ c = Colon
         THEN LET w == [st EXCEPT !.withModel = (c = Dot) \/ @]
              IN  IF modelTable(w).err # NoErr THEN modelTable(w)
                  ELSE [modelTable(w) EXCEPT !.state = PARSING_FIELD]
         ELSE [st EXCEPT !.modelbuf = Append(@, c)]
    ELSE IF c = Comma \/ c = RBrace
         THEN IF writeField(st).err # NoErr THEN writeField(st)
              ELSE IF c = RBrace
              THEN [writeField(st) EXCEPT !.fieldbuf = <<>>, !.state = INIT]
              ELSE [writeField(st) EXCEPT !.fieldbuf = <<>>, !.sqlbuf = Append(@, c)]
         ELSE IF c = Space
         THEN [st EXCEPT !.sqlbuf = Append(@, c)]
         ELSE [st EXCEPT !.fieldbuf = Append(@, c)]

RECURSIVE ConvLoop(_, _, _)

\* the loop from index i on; an error returns at once
ConvLoop(sql, i, st) ==
    IF st.err # NoErr \/ i > Len(sql) THEN st
    ELSE ConvLoop(sql, i + RuneWidth(sql, i), ConvStep(st, sql[i]))

\* conv's results s and err, and the state the scan was in when it returned
conv(sql) ==
    LET st == ConvLoop(sql, 1, ConvStart)
    IN  [s |-> IF st.err # NoErr THEN <<>> ELSE st.sqlbuf,
         err |-> st.err, state |-> st.state]

\* The templates conv is given are made of pieces: a text outside any
\* placeholder, or a placeholder {model}, {model:f1, f2} or {model.f1, f2},
\* possibly with a space before its commas, possibly with its '}' missing.
Text(bytes) ==
    [kind |-> "text", text |-> bytes, model |-> <<>>, qualified |-> FALSE,
     fields |-> <<>>, gap |-> FALSE, closed |-> TRUE]

Holder(model, qualified, fields, gap, shut) ==
    [kind |-> "holder", text |-> <<>>, model |-> model, qualified |-> qualified,
     fields |-> fields, gap |-> gap, closed |-> shut]

Segments ==
    { Text(<<83, 32>>),
      Text(<<195, 169>>),
      Holder(<<85>>, FALSE, <<>>, FALSE, TRUE),
      Holder(<<85>>, TRUE, <<(<<73>>), (<<78>>)>>, FALSE, TRUE),
      Holder(<<85>>, FALSE, <<(<<73>>)>>, FALSE, TRUE),
      Holder(<<85>>, FALSE, <<(<<73>>), (<<78>>)>>, TRUE, TRUE),
      Holder(<<71>>, FALSE, <<>>, FALSE, TRUE),
      Holder(<<85>>, FALSE, <<(<<88>>)>>, FALSE, TRUE),
      Holder(<<195, 169>>, FALSE, <<>>, FALSE, TRUE),
      Holder(<<85>>, FALSE, <<>>, FALSE, FALSE),
      Holder(<<85>>, FALSE, <<(<<73>>)>>, FALSE, FALSE) }

Templates == UNION { [1..k -> Segments] : k \in 1..MaxSegs }

RECURSIVE FieldList(_, _, _)
RECURSIVE Written(_)
RECURSIVE Resolved(_)

\* a field list: the names as they are (resolve FALSE) or the columns they
\* stand for (resolve TRUE), with the separators between them
FieldList(seg, k, resolve) ==
    IF k > Len(seg.fields) THEN <<>>
    ELSE (IF ~resolve THEN seg.fields[k]
          ELSE (IF seg.qualified THEN Models(seg.model).Name \o <<Dot>> ELSE <<>>)
                   \o FieldsGet(seg.fields[k]))
         \o (IF k = Len(seg.fields) THEN <<>>
             ELSE (IF seg.gap THEN <<Space>> ELSE <<>>) \o <<Comma, Space>>)
         \o FieldList(seg, k + 1, resolve)

\* a piece as template text
SegText(seg) ==
    IF seg.kind = "text" THEN seg.text
    ELSE <<LBrace>> \o seg.model
         \o (IF seg.fields = <<>> THEN <<>>
             ELSE <<IF seg.qualified THEN Dot ELSE Colon>> \o FieldList(seg, 1, FALSE))
         \o (IF seg.closed THEN <<RBrace>> ELSE <<>>)

\* what a piece is to become: a text itself, {model} the table name, a field
\* list its columns
SegSql(seg) ==
    IF seg.kind = "text" THEN seg.text
    ELSE IF seg.fields = <<>> THEN Models(seg.model).Name
    ELSE FieldList(seg, 1, TRUE)

Written(segs) == IF segs = <<>> THEN <<>> ELSE SegText(Head(segs)) \o Written(Tail(segs))

Resolved(segs) == IF segs = <<>> THEN <<>> ELSE SegSql(Head(segs)) \o Resolved(Tail(segs))

\* the fields of a placeholder that its model does not have
Absent(seg) == {k \in 1..Len(seg.fields) : FieldsGet(seg.fields[k]) = <<>>}

\* a text, or a closed placeholder of a registered model and its fields
WellFormed(seg) ==
    \/ seg.kind = "text"
    \/ seg.closed /\ ~Models(seg.model).nil /\ Absent(seg) = {}

\* a closed placeholder with an unregistered model or an absent field
Offends(seg) ==
    seg.kind = "holder" /\ seg.closed /\ (Models(seg.model).nil \/ Absent(seg) # {})

\* the error that names what an offending placeholder gets wrong
Offence(seg) ==
    IF Models(seg.model).nil THEN ErrModel(seg.model)
    ELSE ErrField(seg.fields[CHOOSE k \in Absent(seg) : \A j \in Absent(seg) : k <= j],
                  seg.model)

CallConv ==
    /\ arg.fn = "conv"
    /\ res = NoRes
    /\ res' = [fn |-> "conv", s |-> conv(arg.sql).s, err |-> conv(arg.sql).err,
               state |-> conv(arg.sql).state]
    /\ UNCHANGED <<arg, cacherVars, idVars>>

\* SpecConv: conv on one template
InitConv ==
    /\ Untouched
    /\ arg \in {[fn |-> "conv", segs |-> t, sql |-> Written(t)] : t \in Templates}
    /\ res = NoRes

NextConv == CallConv

SpecConv == InitConv /\ [][NextConv]_vars

\* C16: for a template of texts and well-formed placeholders of registered
\* models and fields, conv succeeds and returns the texts as they are, the
\* table name for {Model}, the columns for {Model:F1, F2} and table.column
\* for {Model.F1, F2}, with the commas and spaces where they were.
C16_WellFormedResolved ==
    (res.fn = "conv" /\ \A k \in 1..Len(arg.segs) : WellFormed(arg.segs[k]))
        => res.err = NoErr /\ res.s = Resolved(arg.segs)

\* C17: when a placeholder names an unregistered model or an absent field
\* (after well-formed pieces only), conv returns the error that names it and
\* the empty string.
C17_ErrorNamesOffender ==
    res.fn = "conv" =>
        \A k \in 1..Len(arg.segs) :
            (Offends(arg.segs[k]) /\ \A j \in 1..(k - 1) : WellFormed(arg.segs[j]))
                => res.s = <<>> /\ res.err = Offence(arg.segs[k])

\* C18: conv returns without an error only when its scan has ended in INIT.
C18_SuccessOnlyOutside ==
    (res.fn = "conv" /\ res.state # INIT) => res.err # NoErr

====
